---- MODULE Spec2Model ----
(***************************************************************************)
(* Model of the terminal client in src/tui.go: the bubbletea Model, its    *)
(* Update handler (one case per message type), the search goroutine that   *)
(* Update spawns on Enter, the notification commands and their timers.     *)
(*                                                                         *)
(* The event loop owns the Model `m`; every message is handled by one call *)
(* of Update, which runs to completion.  Goroutines (search, timer) and    *)
(* commands hand their messages to the loop through tui.Send / the command *)
(* channel; a blocked Send has no visible effect until the loop receives   *)
(* it, so "send" and "handle" are one step here.                           *)
(*                                                                         *)
(* Left out: the spinner's frame counter, the viewport's scroll offset and *)
(* the textarea's width (none of them is read by Update's own branches).   *)
(***************************************************************************)
EXTENDS Integers, Sequences, FiniteSets, Bags, TLC

VARIABLES m, tasks, inbox, timers, run, nlogs, late, frame

vars == <<m, tasks, inbox, timers, run, nlogs, late, frame>>

----------------------------------------------------------------------------
(* Bounds of the model *)

\* searches dispatched in one behaviour
MaxSearches == 2
\* characters typed into the textarea
MaxLen == 1
\* notifications emitted by the mouse toggle in one behaviour
MaxLogs == 1
\* widest window of the resize specification
MaxWidth == 30

----------------------------------------------------------------------------
(* Values *)

WaitingForInput == "WaitingForInput"
WaitingForResponse == "WaitingForResponse"
DisplayingAllQuestions == "DisplayingAllQuestions"
DisplayingQuestionAndAnswers == "DisplayingQuestionAndAnswers"
DisplayingAllComments == "DisplayingAllComments"
DisplayingHelpScreen == "DisplayingHelpScreen"

State == {WaitingForInput, WaitingForResponse, DisplayingAllQuestions,
          DisplayingQuestionAndAnswers, DisplayingAllComments,
          DisplayingHelpScreen}

Info == "Info"
Warning == "Warning"
Error == "Error"

\* getLogCmd: the command whose message is logMsg{Msg, Type}
getLogCmd(msg, logType) == [kind |-> "logMsg", arg |-> <<msg, logType>>]

Digits == <<"0", "1", "2", "3", "4", "5", "6", "7", "8", "9">>

RECURSIVE Itoa(_)
\* strconv.Itoa for n >= 0: the decimal digits, most significant first
Itoa(n) == IF n < 10 THEN <<Digits[n + 1]>>
           ELSE Itoa(n \div 10) \o <<Digits[(n % 10) + 1]>>

DigitVal(c) == IF \E d \in 1..10 : Digits[d] = c
               THEN (CHOOSE d \in 1..10 : Digits[d] = c) - 1
               ELSE -1

RECURSIVE AtoiAcc(_, _)
AtoiAcc(s, acc) == IF s = <<>> THEN acc
                   ELSE IF DigitVal(Head(s)) < 0 THEN -1
                   ELSE AtoiAcc(Tail(s), 10 * acc + DigitVal(Head(s)))

\* strconv.Atoi with the error dropped (selectedRowId, _ := ...): 0 on error
Atoi(s) == IF s = <<>> \/ AtoiAcc(s, 0) < 0 THEN 0 ELSE AtoiAcc(s, 0)

\* The items the search collaborator can return: identifier i, with a title,
\* score, view count and answers of its own.
TitleOf(i) == <<"T", Digits[(i % 10) + 1]>>

ResponseItem(i) == [QuestionID |-> i, Title |-> TitleOf(i), Score |-> i + 10,
                    ViewCount |-> 100 * i, Answers |-> [k \in 1..(i % 2) |-> <<"A", Digits[(i % 10) + 1]>>]]

\* ResponseItem{}: the zero value returned when no item matches
EmptyItem == [QuestionID |-> 0, Title |-> <<>>, Score |-> 0, ViewCount |-> 0,
              Answers |-> <<>>]

\* SEResponse.Items as the collaborator returns them: no item, one item, two
\* items (identifiers unique within one response)
Responses == {<<>>, <<ResponseItem(2)>>, <<ResponseItem(13), ResponseItem(2)>>}

\* SEResponse.ToRows: one row per item, columns id, title, score, views
ToRows(items) == [k \in DOMAIN items |->
                    <<Itoa(items[k].QuestionID), items[k].Title,
                      Itoa(items[k].Score), Itoa(items[k].ViewCount)>>]

\* mutant: the conversion rounds down
FracFloor(tenths, w) == (tenths * w) \div 10

\* int(f * float32(w)) for f = tenths/10: Go's conversion truncates toward zero
Frac(tenths, w) == IF w >= 0 THEN (tenths * w) \div 10 ELSE -(((-w) * tenths) \div 10)

SetTableHeaders(t) == [t EXCEPT !.cols = <<Frac(1, t.width), Frac(7, t.width),
                                           Frac(1, t.width), Frac(2, t.width)>>]

WindowSizes == {[Width |-> 80, Height |-> 24], [Width |-> 3, Height |-> 1]}

Chars == {"a"}

Keys == {[kind |-> "KeyRunes", arg |-> c] : c \in Chars} \cup
        {[kind |-> k, arg |-> ""] : k \in {"KeyBackspace", "KeyEnter", "KeyCtrlS",
                                           "KeyCtrlC", "KeyEsc", "KeyUp", "KeyDown"}}

----------------------------------------------------------------------------
(* initialModel *)

initialModel ==
    [table    |-> SetTableHeaders([rows |-> <<>>, cursor |-> 0, focus |-> FALSE,
                                   width |-> 30, height |-> 10, cols |-> <<>>]),
     textarea |-> [value |-> <<>>, focus |-> TRUE],
     viewport |-> [content |-> <<>>, Width |-> 30, Height |-> 3],
     mouse    |-> TRUE,
     response |-> <<>>,
     state    |-> WaitingForInput,
     err      |-> ""]

----------------------------------------------------------------------------
(* Update: the sub-widgets first, then the switch on the message type.      *)
(* Each operator returns what one call of Update produces: the Model it     *)
(* returns, the notifications its command emits, the goroutines it starts,  *)
(* and whether it quits or panics.                                          *)

Ret(mm) == [m |-> mm, logs |-> <<>>, go |-> FALSE, timer |-> FALSE,
            reset |-> FALSE, quit |-> FALSE, panic |-> FALSE]

Min(a, b) == IF a < b THEN a ELSE b
Max(a, b) == IF a > b THEN a ELSE b
clamp(v, low, high) == Min(Max(v, low), high)

\* textarea.Update: a focused textarea inserts runes and deletes on backspace
textareaUpdate(ta, msg) ==
    IF ~ta.focus THEN ta
    ELSE IF msg.kind = "KeyRunes" THEN [ta EXCEPT !.value = Append(@, msg.arg)]
    ELSE IF msg.kind = "KeyBackspace" /\ ta.value # <<>>
         THEN [ta EXCEPT !.value = SubSeq(@, 1, Len(@) - 1)]
    ELSE ta

\* table.Update: a focused table moves its cursor on up/down
tableUpdate(t, msg) ==
    IF ~t.focus THEN t
    ELSE IF msg.kind = "KeyUp" THEN [t EXCEPT !.cursor = clamp(@ - 1, 0, Len(t.rows) - 1)]
    ELSE IF msg.kind = "KeyDown" THEN [t EXCEPT !.cursor = clamp(@ + 1, 0, Len(t.rows) - 1)]
    ELSE t

WidgetsUpdate(mm, msg) ==
    [mm EXCEPT !.textarea = textareaUpdate(@, msg), !.table = tableUpdate(@, msg)]

UpdateWindowSizeMsg(mm, msg) ==
    Ret([mm EXCEPT !.table = SetTableHeaders([@ EXCEPT !.height = msg.arg.Height - 2,
                                                        !.width = msg.arg.Width - 4]),
                   !.viewport = [@ EXCEPT !.Height = msg.arg.Height - 2,
                                          !.Width = msg.arg.Width - 4]])

\* mutant: the notification names the mode that was left
UpdateKeyCtrlSOldMode(mm) ==
    IF mm.mouse
    THEN [Ret([mm EXCEPT !.mouse = FALSE])
            EXCEPT !.logs = <<getLogCmd("Enabled mouse scroll/clicks", Info)>>]
    ELSE [Ret([mm EXCEPT !.mouse = TRUE])
            EXCEPT !.logs = <<getLogCmd("Disabled mouse scroll/clicks", Info)>>]

UpdateKeyCtrlS(mm) ==
    IF mm.mouse
    THEN [Ret([mm EXCEPT !.mouse = FALSE])
            EXCEPT !.logs = <<getLogCmd("Disabled mouse scroll/clicks", Info)>>]
    ELSE [Ret([mm EXCEPT !.mouse = TRUE])
            EXCEPT !.logs = <<getLogCmd("Enabled mouse scroll/clicks", Info)>>]

UpdateQuit(mm) == [Ret(mm) EXCEPT !.quit = TRUE]

\* mutant: the back key also leaves WaitingForResponse
UpdateKeyBackspaceCancels(mm) ==
    IF mm.state = DisplayingQuestionAndAnswers
    THEN Ret([mm EXCEPT !.state = DisplayingAllQuestions, !.table.focus = TRUE])
    ELSE IF mm.state \in {DisplayingAllQuestions, WaitingForResponse}
         THEN Ret([mm EXCEPT !.state = WaitingForInput, !.textarea.focus = TRUE])
    ELSE Ret(mm)

\* mutant: the back key leaves the detail view for the input
UpdateKeyBackspaceSkips(mm) ==
    IF mm.state \in {DisplayingQuestionAndAnswers, DisplayingAllQuestions}
    THEN Ret([mm EXCEPT !.state = WaitingForInput, !.textarea.focus = TRUE])
    ELSE Ret(mm)

UpdateKeyBackspace(mm) ==
    IF mm.state = DisplayingHelpScreen THEN Ret([mm EXCEPT !.state = WaitingForInput])
    ELSE IF mm.state = DisplayingAllComments
         THEN Ret([mm EXCEPT !.state = DisplayingQuestionAndAnswers])
    ELSE IF mm.state = DisplayingQuestionAndAnswers
         THEN Ret([mm EXCEPT !.state = DisplayingAllQuestions, !.table.focus = TRUE])
    ELSE IF mm.state = DisplayingAllQuestions
         THEN Ret([mm EXCEPT !.state = WaitingForInput, !.textarea.focus = TRUE])
    ELSE Ret(mm)

\* table.SelectedRow: nil (here <<>>) when the cursor is outside the rows
SelectedRow(t) == IF t.cursor < 0 \/ t.cursor >= Len(t.rows) THEN <<>>
                  ELSE t.rows[t.cursor + 1]

\* the closure of lines 213-220: the first item with the identifier, else ResponseItem{}
FindItem(items, id) ==
    IF \E k \in DOMAIN items : items[k].QuestionID = id
    THEN items[CHOOSE k \in DOMAIN items :
                 /\ items[k].QuestionID = id
                 /\ \A j \in DOMAIN items : items[j].QuestionID = id => k <= j]
    ELSE EmptyItem

\* question + hr + answers: the heading from the title, a rule of `width` dashes,
\* the answers in the item's order
Document(row, width) == <<row.Title, width, row.Answers>>

\* KeyEnter in DisplayingAllQuestions.  SelectedRow()[0] on a nil row and
\* strings.Repeat with a negative count both panic.
UpdateKeyEnterSelect(mm) ==
    IF SelectedRow(mm.table) = <<>> \/ mm.viewport.Width < 0
    THEN [Ret(mm) EXCEPT !.panic = TRUE]
    ELSE LET selectedRowId == Atoi(SelectedRow(mm.table)[1])
             row == FindItem(mm.response, selectedRowId)
         IN Ret([mm EXCEPT !.state = DisplayingQuestionAndAnswers,
                           !.table.focus = FALSE,
                           !.viewport.content = Document(row, mm.viewport.Width)])

\* KeyEnter in WaitingForInput.  The goroutine's m.textarea.Reset() races with
\* the copy made by `return m`: `early` is the schedule in which the Reset
\* lands before the copy.
UpdateKeyEnterSearch(mm, early) ==
    [Ret([mm EXCEPT !.state = WaitingForResponse,
                    !.textarea.value = IF early THEN <<>> ELSE @])
       EXCEPT !.go = TRUE]

\* mutant: the search branch has lost its state test
UpdateKeyEnterAnyState(mm, early) ==
    IF mm.state = DisplayingAllQuestions THEN UpdateKeyEnterSelect(mm)
    ELSE UpdateKeyEnterSearch(mm, early)

\* mutant: the confirm key on the question opens its comments
UpdateKeyEnterOpensComments(mm, early) ==
    IF mm.state = WaitingForInput THEN UpdateKeyEnterSearch(mm, early)
    ELSE IF mm.state = DisplayingAllQuestions THEN UpdateKeyEnterSelect(mm)
    ELSE IF mm.state = DisplayingQuestionAndAnswers
         THEN Ret([mm EXCEPT !.state = DisplayingAllComments])
    ELSE Ret(mm)

UpdateKeyEnter(mm, early) ==
    IF mm.state = WaitingForInput THEN UpdateKeyEnterSearch(mm, early)
    ELSE IF mm.state = DisplayingAllQuestions THEN UpdateKeyEnterSelect(mm)
    ELSE Ret(mm)

\* mutant: the empty branch does not set the state
UpdateSEResponseStays(mm, msg) ==
    IF Len(msg.arg) = 0
    THEN [Ret([mm EXCEPT !.textarea = [value |-> <<>>, focus |-> FALSE]])
            EXCEPT !.logs = <<getLogCmd("No results found", Warning)>>, !.reset = TRUE]
    ELSE Ret([mm EXCEPT !.response = msg.arg,
                        !.state = DisplayingAllQuestions,
                        !.table.rows = ToRows(msg.arg),
                        !.textarea.focus = FALSE,
                        !.table.focus = TRUE])

\* mutant: the empty branch blurs the textarea without resetting it
UpdateSEResponseKeepsText(mm, msg) ==
    IF Len(msg.arg) = 0
    THEN [Ret([mm EXCEPT !.state = WaitingForInput, !.textarea.focus = FALSE])
            EXCEPT !.logs = <<getLogCmd("No results found", Warning)>>]
    ELSE Ret([mm EXCEPT !.response = msg.arg,
                        !.state = DisplayingAllQuestions,
                        !.table.rows = ToRows(msg.arg),
                        !.textarea.focus = FALSE,
                        !.table.focus = TRUE])

\* mutant: the new items are appended to the stored ones
UpdateSEResponseMerges(mm, msg) ==
    IF Len(msg.arg) = 0
    THEN [Ret([mm EXCEPT !.state = WaitingForInput,
                         !.textarea = [value |-> <<>>, focus |-> FALSE]])
            EXCEPT !.logs = <<getLogCmd("No results found", Warning)>>, !.reset = TRUE]
    ELSE Ret([mm EXCEPT !.response = mm.response \o msg.arg,
                        !.state = DisplayingAllQuestions,
                        !.table.rows = ToRows(mm.response \o msg.arg),
                        !.textarea.focus = FALSE,
                        !.table.focus = TRUE])

\* mutant: the response is stored before the test for no items
UpdateSEResponseStoresEmpty(mm, msg) ==
    IF Len(msg.arg) = 0
    THEN [Ret([mm EXCEPT !.response = msg.arg,
                         !.state = WaitingForInput,
                         !.textarea = [value |-> <<>>, focus |-> FALSE]])
            EXCEPT !.logs = <<getLogCmd("No results found", Warning)>>, !.reset = TRUE]
    ELSE Ret([mm EXCEPT !.response = msg.arg,
                        !.state = DisplayingAllQuestions,
                        !.table.rows = ToRows(msg.arg),
                        !.textarea.focus = FALSE,
                        !.table.focus = TRUE])

UpdateSEResponse(mm, msg) ==
    IF Len(msg.arg) = 0
    THEN [Ret([mm EXCEPT !.state = WaitingForInput,
                         !.textarea = [value |-> <<>>, focus |-> FALSE]])
            EXCEPT !.logs = <<getLogCmd("No results found", Warning)>>, !.reset = TRUE]
    ELSE Ret([mm EXCEPT !.response = msg.arg,
                        !.state = DisplayingAllQuestions,
                        !.table.rows = ToRows(msg.arg),
                        !.textarea.focus = FALSE,
                        !.table.focus = TRUE])

\* logMsg: an empty message does nothing; any other starts the 3 s timer goroutine
UpdatelogMsg(mm, msg) ==
    IF msg.arg[1] = "" THEN Ret(mm) ELSE [Ret(mm) EXCEPT !.timer = TRUE]

\* mutant: the error is not stored
UpdateerrMsgDropped(mm, msg) == Ret(mm)

\* mutant: the error also sends the program back to the input
UpdateerrMsgRecovers(mm, msg) ==
    Ret([mm EXCEPT !.err = msg.arg, !.state = WaitingForInput])

UpdateerrMsg(mm, msg) == Ret([mm EXCEPT !.err = msg.arg])

Update(mm0, msg, early) ==
    LET mm == WidgetsUpdate(mm0, msg) IN
    CASE msg.kind = "WindowSizeMsg" -> UpdateWindowSizeMsg(mm, msg)
      [] msg.kind = "KeyCtrlS" -> UpdateKeyCtrlS(mm)
      [] msg.kind \in {"KeyCtrlC", "KeyEsc"} -> UpdateQuit(mm)
      [] msg.kind = "KeyBackspace" -> UpdateKeyBackspace(mm)
      [] msg.kind = "KeyEnter" -> UpdateKeyEnter(mm, early)
      [] msg.kind = "SEResponse" -> UpdateSEResponse(mm, msg)
      [] msg.kind = "logMsg" -> UpdatelogMsg(mm, msg)
      [] msg.kind = "errMsg" -> UpdateerrMsg(mm, msg)
      [] OTHER -> Ret(mm)

----------------------------------------------------------------------------
(* View: the frame as the widget it shows and the text that widget holds.   *)

Frame(widget, text) == [widget |-> widget, text |-> text]

\* mutant: the error is looked at last, after the views of the states
ViewStateFirst(mm) ==
    IF mm.state = WaitingForInput THEN Frame("textarea", mm.textarea.value)
    ELSE IF mm.state = WaitingForResponse THEN Frame("spinner", <<" Searching...">>)
    ELSE IF mm.state = DisplayingAllQuestions THEN Frame("table", mm.table.rows)
    ELSE IF mm.state \in {DisplayingQuestionAndAnswers, DisplayingAllComments,
                          DisplayingHelpScreen}
         THEN Frame("viewport", mm.viewport.content)
    ELSE IF mm.err # "" THEN Frame("err", <<mm.err>>)
    ELSE Frame("", <<>>)

View(mm) ==
    IF mm.err # "" THEN Frame("err", <<mm.err>>)
    ELSE IF mm.state = WaitingForInput THEN Frame("textarea", mm.textarea.value)
    ELSE IF mm.state = WaitingForResponse THEN Frame("spinner", <<" Searching...">>)
    ELSE IF mm.state = DisplayingAllQuestions THEN Frame("table", mm.table.rows)
    ELSE IF mm.state \in {DisplayingQuestionAndAnswers, DisplayingAllComments,
                          DisplayingHelpScreen}
         THEN Frame("viewport", mm.viewport.content)
    ELSE Frame("", <<>>)

----------------------------------------------------------------------------
(* The program: the event loop, the search goroutines, the timers.          *)

Init ==
    /\ m = initialModel
    /\ tasks = <<>>
    /\ inbox = EmptyBag
    /\ timers = 0
    /\ run = "running"
    /\ nlogs = 0
    /\ late = FALSE
    /\ frame = View(initialModel)

\* The goroutine's m.textarea shares its backing array with the loop's textarea
\* until either side calls Reset: while it has not yet read the value, it sees
\* what the loop has typed since.
Shared(ts, r) ==
    [t \in DOMAIN ts |->
        IF ts[t].pc = "start" /\ ts[t].shared
        THEN IF r.reset THEN [ts[t] EXCEPT !.shared = FALSE]
             ELSE [ts[t] EXCEPT !.question = r.m.textarea.value]
        ELSE ts[t]]

\* the goroutine of lines 199-205, as started by this call of Update
NewTask(mm, early) ==
    [pc |-> IF early THEN "search" ELSE "start", question |-> mm.textarea.value,
     typed |-> mm.textarea.value, shared |-> ~early]

\* a goroutine that has handed over its message (or died with the process)
Finished == [pc |-> "done", question |-> <<>>, typed |-> <<>>, shared |-> FALSE]

\* One turn of the event loop: model, cmd = model.Update(msg), then the
\* renderer writes model.View().  A panic in Update kills the program and
\* tea.Quit ends it: the goroutines and pending commands go with the process,
\* the loop keeps the last Model it had.
Handle(msg, early, ts, box, tm) ==
    LET r == Update(m, msg, early) IN
    /\ run = "running"
    /\ r.go => Len(ts) < MaxSearches
    /\ IF r.panic \/ r.quit
       THEN /\ run' = IF r.panic THEN "panic" ELSE "quit"
            /\ m' = IF r.panic THEN m ELSE r.m
            /\ tasks' = [t \in DOMAIN ts |-> Finished]
            /\ inbox' = EmptyBag
            /\ timers' = 0
       ELSE /\ run' = "running"
            /\ m' = r.m
            /\ tasks' = IF r.go THEN Append(Shared(ts, r), NewTask(m, early))
                        ELSE Shared(ts, r)
            /\ inbox' = box (+) SetToBag({r.logs[k] : k \in DOMAIN r.logs})
            /\ timers' = IF r.timer THEN tm + 1 ELSE tm
    /\ frame' = View(m')

\* a key press reaches the loop
KeyPress(k) ==
    /\ k.kind = "KeyRunes" => Len(m.textarea.value) < MaxLen
    /\ k.kind = "KeyCtrlS" => nlogs < MaxLogs
    /\ \E early \in BOOLEAN :
          /\ (k.kind # "KeyEnter" \/ m.state # WaitingForInput) => ~early
          /\ Handle(k, early, tasks, inbox, timers)
    /\ nlogs' = IF run' # "running" THEN 0 ELSE IF k.kind = "KeyCtrlS" THEN nlogs + 1 ELSE nlogs
    /\ late' = FALSE

\* the terminal reports a new window size
Resize(w) ==
    /\ Handle([kind |-> "WindowSizeMsg", arg |-> w], FALSE, tasks, inbox, timers)
    /\ UNCHANGED nlogs
    /\ late' = FALSE

\* lines 200-201, scheduled after Update has returned: the goroutine reads the
\* question and resets its own copy of the textarea
TaskRead(t) ==
    /\ run = "running"
    /\ tasks[t].pc = "start"
    /\ tasks' = [tasks EXCEPT ![t].pc = "search", ![t].shared = FALSE]
    /\ UNCHANGED <<m, inbox, timers, run, nlogs, frame>>
    /\ late' = FALSE

\* lines 202-204: Search returns resp, tui.Send(resp) hands it to the loop
TaskOutcome(t, resp) ==
    /\ tasks[t].pc = "search"
    /\ Handle([kind |-> "SEResponse", arg |-> resp], FALSE,
              [tasks EXCEPT ![t] = Finished], inbox, timers)
    /\ UNCHANGED nlogs
    /\ late' = FALSE

\* the collaborator fails: the loop receives an errMsg instead of a response
TaskFail(t) ==
    /\ tasks[t].pc = "search"
    /\ Handle([kind |-> "errMsg", arg |-> "search failed"], FALSE,
              [tasks EXCEPT ![t] = Finished], inbox, timers)
    /\ UNCHANGED nlogs
    /\ late' = FALSE

\* a command returned by Update has run: its logMsg reaches the loop
DeliverLog(l) ==
    /\ Handle(l, FALSE, tasks, inbox (-) SetToBag({l}), timers)
    /\ UNCHANGED nlogs
    /\ late' = FALSE

\* The notification a Model holds: none.  The struct (lines 47-56) has no field
\* for one and case logMsg (lines 258-263) assigns nothing to the Model.
ActiveNotification(mm) == <<>>

\* line 267: what the timer goroutine hands to tui.Send is getLogCmd("", Info),
\* the command (a func value), not the logMsg the command would return
TimerMsg == [kind |-> "Cmd", arg |-> getLogCmd("", Info)]

\* the case of Update's type switch (lines 157-276) that takes msg
Branch(msg) ==
    CASE msg.kind = "WindowSizeMsg" -> "tea.WindowSizeMsg"
      [] msg.kind \in {"KeyRunes", "KeyBackspace", "KeyEnter", "KeyCtrlS", "KeyCtrlC",
                       "KeyEsc", "KeyUp", "KeyDown"} -> "tea.KeyMsg"
      [] msg.kind = "SEResponse" -> "SEResponse"
      [] msg.kind = "logMsg" -> "logMsg"
      [] msg.kind = "errMsg" -> "errMsg"
      [] OTHER -> "default"

\* lines 265-268: after 3 s the timer goroutine calls tui.Send(getLogCmd("", Info))
TimerFire ==
    /\ timers > 0
    /\ Handle(TimerMsg, FALSE, tasks, inbox, timers - 1)
    /\ UNCHANGED nlogs
    /\ late' = FALSE

Next ==
    \/ \E k \in Keys : KeyPress(k)
    \/ \E w \in WindowSizes : Resize(w)
    \/ \E t \in DOMAIN tasks : TaskRead(t)
    \/ \E t \in DOMAIN tasks, resp \in Responses : TaskOutcome(t, resp)
    \/ \E t \in DOMAIN tasks : TaskFail(t)
    \/ \E l \in BagToSet(inbox) : DeliverLog(l)
    \/ TimerFire

Spec == Init /\ [][Next]_vars

\* The search goroutine runs on: it reads the question, the collaborator
\* returns, and the loop takes the message it sends.
TaskStep ==
    \/ \E t \in DOMAIN tasks : TaskRead(t)
    \/ \E t \in DOMAIN tasks, resp \in Responses : TaskOutcome(t, resp)
    \/ \E t \in DOMAIN tasks : TaskFail(t)

SpecFair == Spec /\ WF_vars(TaskStep)

\* tui is a package-level handle (line 18): any goroutine of the process can
\* hand the loop an SEResponse with tui.Send.  Here one does so while no search
\* is pending (and, to keep the notifications bounded, while none is pending);
\* `late` marks the state such a message has produced.
Send(resp) ==
    /\ m.state # WaitingForResponse
    /\ BagCardinality(inbox) + timers < MaxLogs
    /\ Handle([kind |-> "SEResponse", arg |-> resp], FALSE, tasks, inbox, timers)
    /\ UNCHANGED nlogs
    /\ late' = TRUE

NextLate ==
    \/ Next
    \/ \E resp \in Responses : Send(resp)

SpecLate == Init /\ [][NextLate]_vars

\* Nothing under src/ creates an errMsg: whoever does hands it to the loop
\* through tui (line 18), in whatever state the loop is then.
SendErr ==
    /\ Handle([kind |-> "errMsg", arg |-> "search failed"], FALSE, tasks, inbox, timers)
    /\ UNCHANGED nlogs
    /\ late' = FALSE

\* every event of the program but the window size, which no case that reads
\* or writes err looks at
NextErr ==
    \/ \E k \in Keys : KeyPress(k)
    \/ \E t \in DOMAIN tasks : TaskRead(t)
    \/ \E t \in DOMAIN tasks, resp \in Responses : TaskOutcome(t, resp)
    \/ \E t \in DOMAIN tasks : TaskFail(t)
    \/ \E l \in BagToSet(inbox) : DeliverLog(l)
    \/ TimerFire
    \/ SendErr

SpecErr == Init /\ [][NextErr]_vars

\* Resizing on its own: every window width up to MaxWidth, in every state the
\* confirm and back keys and the outcomes of one search lead to.
Widths == 0..MaxWidth

NextResize ==
    \/ \E w \in Widths : Resize([Width |-> w, Height |-> 24])
    \/ \E k \in {"KeyEnter", "KeyBackspace"} :
          /\ m.state = WaitingForInput => tasks = <<>>
          /\ KeyPress([kind |-> k, arg |-> ""])
    \/ \E t \in DOMAIN tasks : TaskRead(t)
    \/ \E t \in DOMAIN tasks, resp \in Responses : TaskOutcome(t, resp)

SpecResize == Init /\ [][NextResize]_vars

\* View on its own: the Models it is given, over every value of the state
\* constants (lines 32-39) with and without an error, and one call of View.
Texts == UNION {[1..n -> Chars] : n \in 0..MaxLen}

ViewModels ==
    {[initialModel EXCEPT !.state = s, !.err = e, !.textarea.value = v,
                          !.response = r, !.table.rows = ToRows(r),
                          !.viewport.content =
                              IF r = <<>> THEN <<>> ELSE Document(r[1], 30)] :
        s \in State, e \in {"", "search failed"}, v \in Texts, r \in Responses}

InitView ==
    /\ m \in ViewModels
    /\ tasks = <<>>
    /\ inbox = EmptyBag
    /\ timers = 0
    /\ run = "running"
    /\ nlogs = 0
    /\ late = FALSE
    /\ frame = Frame("none", <<>>)

\* View has a value receiver: the frame is written, the Model is the loop's
Render ==
    /\ frame' = View(m)
    /\ UNCHANGED <<m, tasks, inbox, timers, run, nlogs, late>>

SpecView == InitView /\ [][Render]_vars

----------------------------------------------------------------------------
(* Properties *)

\* the searches dispatched and not yet handled: the goroutine has still to read
\* the question, or the collaborator has still to return
InFlight(ts) == {t \in DOMAIN ts : ts[t].pc # "done"}

KeyEnter == KeyPress([kind |-> "KeyEnter", arg |-> ""])
KeyBackspace == KeyPress([kind |-> "KeyBackspace", arg |-> ""])

NoResults == getLogCmd("No results found", Warning)

\* C1: in every reachable state at most one search is in flight, whatever the
\* interleaving of key, resize, notification and outcome events.
C1_AtMostOneInFlight == Cardinality(InFlight(tasks)) <= 1

\* a second search is in flight after the first one's outcome was handled
C1_Witness == Len(tasks) = 2 /\ Cardinality(InFlight(tasks)) = 1

\* C2: a confirm key handled in any state other than WaitingForInput dispatches
\* no search: the number of dispatched searches is the same before and after.
C2_SubmitElsewhereDispatchesNothing ==
    [][(KeyEnter /\ m.state # WaitingForInput)
          => (Len(tasks') = Len(tasks) /\ InFlight(tasks') \subseteq InFlight(tasks))]_vars

\* the detail view, which only a confirm key handled in DisplayingAllQuestions
\* opens, with the one search dispatched so far long handled
C2_Witness ==
    /\ m.state = DisplayingQuestionAndAnswers
    /\ Len(tasks) = 1
    /\ InFlight(tasks) = {}

C4_SubmitNeedsText ==
    [][(KeyEnter /\ m.state = WaitingForInput /\ m.textarea.value = <<>>)
          => (Len(tasks') = Len(tasks) /\ m'.state = WaitingForInput)]_vars

C6_BackOneLevel ==
    [][KeyBackspace =>
          /\ m.state = DisplayingQuestionAndAnswers => m'.state = DisplayingAllQuestions
          /\ m.state = DisplayingAllQuestions => m'.state = WaitingForInput
          /\ m.state \in {WaitingForInput, WaitingForResponse} => m'.state = m.state]_vars

\* back in WaitingForInput with the table still focused and a document in the
\* viewport: the detail view was left for the list, and the list for the input
C6_Witness ==
    /\ m.state = WaitingForInput
    /\ m.textarea.focus
    /\ m.table.focus
    /\ m.viewport.content # <<>>

\* C7: an empty SEResponse handled in WaitingForResponse leads to
\* WaitingForInput with the textarea's content cleared, and emits exactly one
\* notification: Warning, "No results found".
C7_EmptyOutcome ==
    [][\A t \in DOMAIN tasks :
          (TaskOutcome(t, <<>>) /\ m.state = WaitingForResponse)
             => /\ m'.state = WaitingForInput
                /\ m'.textarea.value = <<>>
                /\ inbox' = inbox (+) SetToBag({getLogCmd("No results found", Warning)})]_vars

\* the state an empty outcome leaves: WaitingForInput, the textarea blurred,
\* the warning on its way to the loop
C7_Witness ==
    /\ m.state = WaitingForInput
    /\ ~m.textarea.focus
    /\ BagIn(NoResults, inbox)
    /\ InFlight(tasks) = {}

\* C8: a non-empty SEResponse handled in WaitingForResponse leads to
\* DisplayingAllQuestions, replaces the stored response by the delivered one,
\* sets the table rows to the projection of exactly that response, focuses the
\* table and not the textarea, and emits no notification.
C8_ResultOutcome ==
    [][\A t \in DOMAIN tasks : \A resp \in Responses \ {<<>>} :
          (TaskOutcome(t, resp) /\ m.state = WaitingForResponse)
             => /\ m'.state = DisplayingAllQuestions
                /\ m'.response = resp
                /\ m'.table.rows = ToRows(resp)
                /\ m'.table.focus
                /\ ~m'.textarea.focus
                /\ inbox' = inbox]_vars

\* a second, different response has replaced the first one
C8_Witness ==
    /\ m.state = DisplayingAllQuestions
    /\ Len(tasks) = 2
    /\ InFlight(tasks) = {}
    /\ Len(m.response) = 1
    /\ m.table.cursor = 1

\* the item whose identifier the row shows, the empty item if there is none
ItemOfRow(items, row) ==
    IF \E k \in DOMAIN items : Itoa(items[k].QuestionID) = row[1]
    THEN items[CHOOSE k \in DOMAIN items : Itoa(items[k].QuestionID) = row[1]]
    ELSE EmptyItem

\* C9: for every stored response with unique identifiers and every selectable
\* row, a confirm key in DisplayingAllQuestions moves to
\* DisplayingQuestionAndAnswers with the document built from the item whose
\* identifier is the selected row's (from the empty item if there is none),
\* and the transition completes.
C9_ConfirmOpensSelected ==
    [][(KeyEnter /\ m.state = DisplayingAllQuestions /\ SelectedRow(m.table) # <<>>)
          => /\ run' = "running"
             /\ m'.state = DisplayingQuestionAndAnswers
             /\ m'.viewport.content =
                  Document(ItemOfRow(m.response, SelectedRow(m.table)), m.viewport.Width)]_vars

C11_TimerDeliversEmptyNotification ==
    [][TimerFire => /\ Branch(TimerMsg) = "logMsg"
                    /\ timers' < timers]_vars

\* C12: a notification handled while the timer of an earlier one is still
\* running becomes the single live notification of the Model (the earlier
\* timer, when it fires, has nothing else to clear).
C12_NewerReplacesOlder ==
    [][\A l \in BagToSet(inbox) :
          (DeliverLog(l) /\ timers > 0 /\ l.arg[1] # "")
             => ActiveNotification(m') = l.arg]_vars

\* C13: a confirm key in WaitingForInput with text q in the textarea leaves the
\* textarea of the Model that Update returns empty, and the question the
\* search goroutine reads is exactly q, whenever the goroutine is scheduled.
C13_SubmitSendsTextAndClears ==
    [][/\ (KeyEnter /\ m.state = WaitingForInput) => m'.textarea.value = <<>>
       /\ \A t \in DOMAIN tasks :
             TaskRead(t) => tasks'[t].question = tasks[t].typed]_vars

\* C14: the frame View renders is the error text whenever err is set, in
\* every state; with no error it is the textarea in WaitingForInput, the
\* spinner with its caption in WaitingForResponse, the table in
\* DisplayingAllQuestions and the viewport in DisplayingQuestionAndAnswers,
\* DisplayingAllComments and DisplayingHelpScreen; rendering leaves the Model
\* as it was.
C14_FrameByErrThenState ==
    /\ [](frame.widget # "none" =>
            IF m.err # "" THEN frame.widget = "err" /\ frame.text = <<m.err>>
            ELSE CASE m.state = WaitingForInput ->
                        frame.widget = "textarea" /\ frame.text = m.textarea.value
                   [] m.state = WaitingForResponse ->
                        frame.widget = "spinner" /\ frame.text = <<" Searching...">>
                   [] m.state = DisplayingAllQuestions ->
                        frame.widget = "table" /\ frame.text = m.table.rows
                   [] OTHER ->
                        frame.widget = "viewport" /\ frame.text = m.viewport.content)
    /\ [][Render => m' = m]_vars

\* the error text rendered over a result list
C14_Witness ==
    /\ frame.widget = "err"
    /\ m.state = DisplayingAllQuestions
    /\ m.table.rows # <<>>

\* k*t/10 rounded toward zero
TowardZero(k, t) == IF t >= 0 THEN (k * t) \div 10 ELSE -((k * (-t)) \div 10)

\* C15 as stated: a resize to width W sets the table width to T = W - 4 and
\* the columns to floor(0.1 T), floor(0.7 T), floor(0.1 T), floor(0.2 T),
\* also for W < 4, and leaves the state as it was.
C15_ResizeFloors ==
    [][\A w \in Widths :
          Resize([Width |-> w, Height |-> 24])
             => /\ m'.table.width = w - 4
                /\ m'.table.cols = <<(1 * (w - 4)) \div 10, (7 * (w - 4)) \div 10,
                                     (1 * (w - 4)) \div 10, (2 * (w - 4)) \div 10>>
                /\ m'.state = m.state]_vars

\* C15, amended: a resize to width W sets the table width to T = W - 4 and
\* the columns to 0.1 T, 0.7 T, 0.1 T, 0.2 T rounded toward zero (the floor
\* only for T >= 0), and leaves the state as it was.
C15_ResizeTruncates ==
    [][\A w \in Widths :
          Resize([Width |-> w, Height |-> 24])
             => /\ m'.table.width = w - 4
                /\ m'.table.cols = <<TowardZero(1, w - 4), TowardZero(7, w - 4),
                                     TowardZero(1, w - 4), TowardZero(2, w - 4)>>
                /\ m'.state = m.state]_vars

\* a window of width 0 while the result list is shown: T = -4 and the title
\* column is -2, where the floor of -2.8 is -3
C15_Witness ==
    /\ m.state = DisplayingAllQuestions
    /\ m.table.width = -4
    /\ m.table.cols = <<0, -2, 0, 0>>

KeyCtrlS == KeyPress([kind |-> "KeyCtrlS", arg |-> ""])

C17_InputFocused ==
    (run = "running" /\ m.state = WaitingForInput) => m.textarea.focus

\* C18: the table rows are always the projection of the stored response; in
\* DisplayingAllQuestions and DisplayingQuestionAndAnswers the stored response
\* has items; a search outcome with no items changes neither the stored
\* response nor the rows.
C18_RowsAreProjection ==
    /\ [](/\ m.table.rows = ToRows(m.response)
          /\ m.state \in {DisplayingAllQuestions, DisplayingQuestionAndAnswers}
                => m.response # <<>>)
    /\ [][\A t \in DOMAIN tasks :
             TaskOutcome(t, <<>>) => /\ m'.response = m.response
                                     /\ m'.table.rows = m.table.rows]_vars

\* a search with no items after one with items: back in WaitingForInput, the
\* earlier result and its rows still stored
C18_Witness ==
    /\ m.state = WaitingForInput
    /\ ~m.textarea.focus
    /\ Len(tasks) = 2
    /\ Len(m.response) = 2
    /\ Len(m.table.rows) = 2

\* C19: no sequence of events brings the state to DisplayingAllComments or
\* DisplayingHelpScreen: it is always WaitingForInput, WaitingForResponse,
\* DisplayingAllQuestions or DisplayingQuestionAndAnswers.
C19_FourStatesOnly ==
    m.state \in {WaitingForInput, WaitingForResponse, DisplayingAllQuestions,
                 DisplayingQuestionAndAnswers}

\* the question of the second row of a second search is open
C19_Witness ==
    /\ m.state = DisplayingQuestionAndAnswers
    /\ Len(tasks) = 2
    /\ m.table.cursor = 1

KeyQuit == KeyPress([kind |-> "KeyCtrlC", arg |-> ""]) \/ KeyPress([kind |-> "KeyEsc", arg |-> ""])

\* C20: handling an error message sets err and changes no other field of the
\* Model; once err is set no later step clears or changes it; with err set the
\* confirm and back keys still move the state as they do without it, and the
\* quit keys still end the program.
C20_ErrLatched ==
    [][/\ m'.err = "" => ~SendErr /\ \A t \in DOMAIN tasks : ~TaskFail(t)
       /\ m'.err # m.err => m.err = "" /\ m' = [m EXCEPT !.err = "search failed"]
       /\ (m.err # "" /\ KeyQuit) => run' = "quit"
       /\ (m.err # "" /\ m.state = DisplayingQuestionAndAnswers /\ KeyBackspace)
             => m'.state = DisplayingAllQuestions
       /\ (m.err # "" /\ m.state = DisplayingAllQuestions /\ KeyBackspace)
             => m'.state = WaitingForInput
       /\ (m.err # "" /\ m.state = WaitingForInput /\ KeyEnter)
             => m'.state = WaitingForResponse
       /\ (m.err # "" /\ m.state = DisplayingAllQuestions /\ run' = "running" /\ KeyEnter)
             => m'.state = DisplayingQuestionAndAnswers]_vars

\* an error on the screen, and under it a second search has been dispatched
\* from the input that the back key returned to
C20_Witness ==
    /\ m.err # ""
    /\ frame.widget = "err"
    /\ m.state = WaitingForResponse
    /\ m.textarea.focus
    /\ Len(tasks) = 2
    /\ Len(m.response) = 1

====
